---- MODULE Spec2Model ----
(***************************************************************************)
(* Model of the Niti-Satya backend pipeline: configuration                 *)
(* (config.py), document store (document_store.py), the two language-model *)
(* clients (azure_openai.py, gemini_client.py), the RAG engine             *)
(* (rag_engine.py), the fact checker (fact_checker.py) and the routes      *)
(* that drive them (routes.py).                                            *)
(*                                                                         *)
(* Texts are modelled in two ways.  Claims and questions are sequences of  *)
(* one-character strings, so that strip(), len() and the sanitizing        *)
(* regular expressions are computed as the code computes them.  Texts      *)
(* produced by the program or by a provider (explanations, answers) are    *)
(* records [kind, arg, lang]: the template, the text embedded in it and    *)
(* the language the text is written in.                                    *)
(* Confidence values are in hundredths (30 stands for 0.3).                 *)
(***************************************************************************)
EXTENDS Integers, Sequences, FiniteSets, TLC

\* ------------------------------------------------------------------------
\* Bounds of the model
\* ------------------------------------------------------------------------

\* largest number of records the document store holds
MaxDocs == 1

\* longest run of letters in a generated claim
MaxBody == 10

\* largest number of chunks in one index_document_chunks call
MaxChunks == 2

\* longest text of letters, full stops and spaces that is chunked
MaxText == 5

\* longest text with line breaks, control characters and typographic quotes
MaxRawText == 3

\* largest chunk_size a chunker is built with
MaxChunkSize == 3

\* longest run of letters in a generated question
MaxQuestionBody == 1

\* ------------------------------------------------------------------------
\* Program constants
\* ------------------------------------------------------------------------

\* fact_checker.py:87  len(claim.strip()) < 10
MinClaimLen == 10

\* fact_checker.py:219  text[:2000]
ClaimCap == 2000

\* rag_engine.py:299  text[:1000]
QuestionCap == 1000

\* fact_checker.py:158  llm_evidence[:5]
MaxEvidence == 5

\* azure_search.py:208  top_k: int = 5
DefaultTopK == 5

\* chunker.py:131  window: int = 100
Window == 100

\* azure_openai.py:188  relevant_chunks[:5]
AzurePromptChunks == 5

\* document_store.get_all(page=1, page_size=100), fact_checker.py:53
PageSize == 100

\* rag_engine.py:15-98  keys of DOCUMENT_CONTEXT in definition order
DOCUMENT_CONTEXT ==
    << "income-tax-2025", "income-tax-select-committee", "shiksha-bill-2025",
       "vb-gramg-bill-2025", "securities-code-2025", "electricity-bill-2025",
       "vikasit-bharat-main" >>

\* api/schemas.py:22-26  FactCheckVerdict
FactCheckVerdict == {"true", "false", "partially_true", "unverifiable"}

\* ------------------------------------------------------------------------
\* Sequence helpers
\* ------------------------------------------------------------------------

Min(a, b) == IF a < b THEN a ELSE b

Range(s) == {s[i] : i \in 1..Len(s)}

\* Python slice s[:n]
Take(s, n) == SubSeq(s, 1, Min(Len(s), n))

\* Python slice s[n:] (n counted from 0)
Drop(s, n) == SubSeq(s, Min(Len(s), n) + 1, Len(s))

Repeat(c, n) == [i \in 1..n |-> c]


\* ------------------------------------------------------------------------
\* Claims and questions: sequences of one-character strings
\* ------------------------------------------------------------------------

IsSpace(c) == c = " "

\* str.strip(): leading and trailing whitespace removed
RECURSIVE LStrip(_)
LStrip(s) == IF s # <<>> /\ IsSpace(Head(s)) THEN LStrip(Tail(s)) ELSE s

RECURSIVE RStrip(_)
RStrip(s) ==
    IF s # <<>> /\ IsSpace(s[Len(s)]) THEN RStrip(SubSeq(s, 1, Len(s) - 1)) ELSE s

Strip(s) == RStrip(LStrip(s))

\* index of the first position >= from where c occurs in s, 0 when none
RECURSIVE IndexOf(_, _, _)
IndexOf(s, c, from) ==
    IF from > Len(s) THEN 0
    ELSE IF s[from] = c THEN from
    ELSE IndexOf(s, c, from + 1)

\* whether sub occurs in s starting at position i
StartsAt(s, sub, i) ==
    /\ i >= 1
    /\ i + Len(sub) - 1 <= Len(s)
    /\ SubSeq(s, i, i + Len(sub) - 1) = sub

\* first position >= from where sub starts in s, 0 when none
RECURSIVE Find(_, _, _)
Find(s, sub, from) ==
    IF from + Len(sub) - 1 > Len(s) THEN 0
    ELSE IF StartsAt(s, sub, from) THEN from
    ELSE Find(s, sub, from + 1)

ScriptOpen == << "<", "s", "c", "r", "i", "p", "t" >>

ScriptClose == << "<", "/", "s", "c", "r", "i", "p", "t", ">" >>

\* re.sub(r'<script[^>]*>.*?</script>', '', text, IGNORECASE | DOTALL):
\* scanning from position i, a match starts at "<script", runs over
\* non-'>' characters to the first '>', then lazily to the first
\* "</script>"; the matched span is dropped and the scan resumes after it.
RECURSIVE RemoveScripts(_, _)
RemoveScripts(s, i) ==
    IF i > Len(s) THEN s
    ELSE LET gt == IF StartsAt(s, ScriptOpen, i)
                   THEN IndexOf(s, ">", i + Len(ScriptOpen)) ELSE 0
             cl == IF gt > 0 THEN Find(s, ScriptClose, gt + 1) ELSE 0
         IN  IF cl > 0
             THEN RemoveScripts(
                      SubSeq(s, 1, i - 1) \o SubSeq(s, cl + Len(ScriptClose), Len(s)), i)
             ELSE RemoveScripts(s, i + 1)

\* re.sub(r'<[^>]+>', '', text): a '<', one or more non-'>' characters, and
\* a '>'.  "<>" is no match.
RECURSIVE RemoveTags(_, _)
RemoveTags(s, i) ==
    IF i > Len(s) THEN s
    ELSE LET gt == IF s[i] = "<" THEN IndexOf(s, ">", i + 1) ELSE 0
         IN  IF gt > i + 1
             THEN RemoveTags(SubSeq(s, 1, i - 1) \o SubSeq(s, gt + 1, Len(s)), i)
             ELSE RemoveTags(s, i + 1)

\* text.replace('\x00', '')
RemoveNul(s) == SelectSeq(s, LAMBDA c : c # "NUL")

\* FactCheckerService._sanitize_input
FactCheckerSanitize(text) ==
    Strip(Take(RemoveNul(RemoveTags(RemoveScripts(text, 1), 1)), ClaimCap))

\* RAGEngine._sanitize_input (no strip, no NUL removal)
RagSanitize(text) == Take(RemoveTags(RemoveScripts(text, 1), 1), QuestionCap)

\* A length test that forgets to trim the claim
ClaimTooShortUntrimmed(claim) == Len(claim) < MinClaimLen

\* fact_checker.py:87   not claim or len(claim.strip()) < 10
ClaimTooShort(claim) == claim = <<>> \/ Len(Strip(claim)) < MinClaimLen

\* rag_engine.py:161   not question or not question.strip()
QuestionEmpty(question) == question = <<>> \/ Strip(question) = <<>>

\* The claims and questions requests are made with: optional blanks
\* around an optional tag and a run of letters.
Blanks == {<<>>, <<" ">>}

Markup == {<<>>, << "<", "b", ">" >>}

\* Claims: no letters at all, or a run one short of the minimum length and
\* longer.
Claims ==
    { l \o m \o Repeat("a", n) \o r :
        l \in Blanks, m \in Markup, n \in {0} \cup (MinClaimLen - 1)..MaxBody,
        r \in Blanks }

Questions ==
    { l \o m \o Repeat("a", n) : l \in Blanks, m \in Markup, n \in 0..MaxQuestionBody }


\* ------------------------------------------------------------------------
\* Program and provider texts
\* ------------------------------------------------------------------------

\* A text: the template (or source) it comes from, the text embedded in it,
\* and the language it is written in.
Text(kind, arg) == [kind |-> kind, arg |-> arg, lang |-> "en"]

\* api/schemas.py:29-39  Language (two of its values)
Languages == {"en", "hi"}

\* What the translation service returns for a text: the text in the target
\* language.  azure_translator.py:88-97
Translated(text, target) == [text EXCEPT !.lang = target]

\* str(e) of the exceptions AzureOpenAIClient._generate raises
\* (azure_openai.py:52, :66)
AzureErrors == { "Azure OpenAI generation failed: timeout" }

\* str(e) of the TypeError raised by result[:500] when the completion's
\* content is None (azure_openai.py:216-221)
NoneSliceError == "'NoneType' object is not subscriptable"

\* str(e) of an exception GeminiClient._generate re-raises
\* (gemini_client.py:274-276)
GeminiErrors == { "429 quota exceeded" }

\* ------------------------------------------------------------------------
\* Raw model output and its JSON reading
\* ------------------------------------------------------------------------

\* One judgment of the model's "evidence" array.  type "str" is an array
\* element that is no object.
EvItem(type, keys, docid, supports) ==
    [ type |-> type, keys |-> keys, document_id |-> docid,
      source |-> "model source", document_title |-> "model title",
      quote |-> "model quote", supports_claim |-> supports ]

EvPlain == EvItem("dict", {"quote", "supports_claim"}, "", FALSE)

EvSourced == EvItem("dict", {"source", "quote", "supports_claim"}, "", TRUE)

EvInvented ==
    EvItem("dict", {"document_id", "quote", "supports_claim"}, "invented-doc", TRUE)

EvBare == EvItem("dict", {"quote"}, "", FALSE)

EvString == EvItem("str", {}, "", FALSE)

\* The "evidence" values of the generated outputs: the value's JSON type and,
\* for a list, its items.
EvidenceOutputs ==
    { [type |-> "list", items |-> <<>>],
      [type |-> "list", items |-> <<EvPlain>>],
      [type |-> "list", items |-> <<EvSourced, EvBare>>],
      [type |-> "list", items |-> <<EvInvented>>],
      [type |-> "list", items |-> <<EvString>>],
      [type |-> "list", items |-> Repeat(EvPlain, MaxEvidence + 1)],
      [type |-> "null", items |-> <<>>] }

\* The "verdict" values of the generated outputs: JSON type and spelling.
VerdictOutputs ==
    { [type |-> "str", s |-> "true"], [type |-> "str", s |-> "TRUE"],
      [type |-> "str", s |-> "False"], [type |-> "str", s |-> "partially_true"],
      [type |-> "str", s |-> "unverifiable"], [type |-> "str", s |-> "maybe"],
      [type |-> "null", s |-> ""] }

\* The "confidence" values of the generated outputs, in hundredths.
ConfidenceOutputs == {0, 90, 150}

FactCheckKeys == {"verdict", "confidence", "explanation", "evidence"}

JsonObject(keys, v, c, e) ==
    [ keys |-> keys, verdict |-> v, confidence |-> c,
      explanation |-> Text("model", "model explanation"), evidence |-> e ]

BaseVerdict == [type |-> "str", s |-> "true"]

BaseEvidence == [type |-> "list", items |-> <<EvPlain>>]

\* The JSON objects a provider answers a fact-check with: each field varied
\* on its own, and each key left out on its own.
JsonObjects ==
    { JsonObject(FactCheckKeys, v, 90, BaseEvidence) : v \in VerdictOutputs }
    \cup { JsonObject(FactCheckKeys, BaseVerdict, c, BaseEvidence) :
             c \in ConfidenceOutputs }
    \cup { JsonObject(FactCheckKeys, BaseVerdict, 90, e) : e \in EvidenceOutputs }
    \cup { JsonObject(FactCheckKeys, [type |-> "str", s |-> "False"], 90,
                      [type |-> "list", items |-> <<EvSourced, EvBare>>]) }
    \cup { JsonObject(FactCheckKeys \ {k}, BaseVerdict, 90, BaseEvidence) :
             k \in FactCheckKeys }

NoObject == JsonObject({}, [type |-> "null", s |-> ""], 0, [type |-> "null", items |-> <<>>])

\* A raw completion.  shape says what the text is:
\*   "prose"          no JSON, no braces
\*   "prose_braces"   braces around text that is no JSON
\*   "object"         exactly a JSON object
\*   "fenced_object"  a JSON object with prose or a code fence around it
\*   "list", "string", "null"   exactly a JSON value of that type (no braces)
\*   "none"           no text at all (message.content is None)
Raw(shape, obj) == [shape |-> shape, obj |-> obj]

RawTexts ==
    { Raw(sh, NoObject) : sh \in {"prose", "prose_braces", "list", "string", "null"} }
    \cup { Raw("object", o) : o \in JsonObjects }
    \cup { Raw("fenced_object", JsonObject(FactCheckKeys, BaseVerdict, 90, BaseEvidence)) }

\* A parsed JSON value: its Python type and, for a dict, the object.
Value(type, obj) == [type |-> type, obj |-> obj]

\* json.loads(result) succeeds on text that is exactly a JSON value
JsonLoads(raw) ==
    CASE raw.shape = "object" -> Value("dict", raw.obj)
      [] raw.shape = "list"   -> Value("list", NoObject)
      [] raw.shape = "string" -> Value("str", NoObject)
      [] raw.shape = "null"   -> Value("NoneType", NoObject)
      [] OTHER                -> Value("error", NoObject)

\* re.search(r'\{[\s\S]*\}', response) followed by json.loads(match): the
\* span from the first '{' to the last '}' is read; None when there is no
\* such span.
GeminiExtract(raw) ==
    CASE raw.shape \in {"object", "fenced_object"} -> Value("dict", raw.obj)
      [] raw.shape = "prose_braces"                -> Value("error", NoObject)
      [] OTHER                                     -> Value("nomatch", NoObject)


\* ------------------------------------------------------------------------
\* State
\* ------------------------------------------------------------------------

VARIABLES
    settings,       \* config.settings: which keys are set
    documents,      \* DocumentStore.documents, in creation order
    fact_checker,   \* fact_checker._fact_checker: "None" or its llm_provider
    rag_engine,     \* rag_engine._rag_engine: "None" or its llm_provider
    pc,             \* position of the request in flight, "idle" when none
    req,            \* the request: operation and arguments
    local,          \* local variables of the handler in flight
    calls,          \* calls made for the request to store, index,
                    \* translator and providers, in order
    result,         \* what the handler returned or raised
    search_client,  \* AzureSearchService.search_client: "SearchClient" or "None"
    azure_index,    \* the chunks held by the Azure AI Search index
    memory_store,   \* AzureSearchService._memory_store
    deleting,       \* the delete_document call in flight between its two
                    \* remote calls
    index_call      \* the last call to the search service or to the delete
                    \* route, with what it returned or raised

index_vars == << search_client, azure_index, memory_store, deleting, index_call >>

vars == << settings, documents, fact_checker, rag_engine, pc, req, local, calls, result,
           search_client, azure_index, memory_store, deleting, index_call >>

\* ------------------------------------------------------------------------
\* Configuration (config.py)
\* ------------------------------------------------------------------------

\* Settings.get_available_llm
get_available_llm(st) ==
    IF st.azure_openai THEN "azure_openai"
    ELSE IF st.gemini THEN "gemini"
    ELSE "none"

\* AzureTranslatorService.is_configured
TranslatorConfigured(st) == st.translator

\* ------------------------------------------------------------------------
\* Document store (document_store.py)
\* ------------------------------------------------------------------------

\* ids DocumentStore.create draws (uuid4()[:8])
FreshIds == << "d1", "d2", "d3", "d4" >>

StoreIds == { FreshIds[i] : i \in 1..MaxDocs }

\* No delete_document call of the search service is in flight
NoDelete == [pc |-> "idle", document_id |-> "", chunk_ids |-> {}]

\* The search service has not been called yet
NoIndexCall == [op |-> "none"]

\* A stored record: its id and whether its summary is a non-empty string
Doc(id, summary) == [id |-> id, summary |-> summary]

\* metadata.json as DocumentStore._load finds it at start-up: n records,
\* the first m of them without a summary; or one record that carries an id
\* of the built-in table.
InitialStores ==
    { [i \in 1..n |-> Doc(FreshIds[i], i > m)] : n \in 0..MaxDocs, m \in 0..MaxDocs }
    \cup { << Doc(DOCUMENT_CONTEXT[1], summary) >> : summary \in BOOLEAN }

StoredIds(docs) == { docs[i].id : i \in 1..Len(docs) }

\* DocumentStore.get: the record, or NoDoc for None
NoDoc == Doc("", FALSE)

StoreGet(docs, doc_id) ==
    IF doc_id \in StoredIds(docs)
    THEN docs[CHOOSE i \in 1..Len(docs) : docs[i].id = doc_id]
    ELSE NoDoc

Reverse(s) == [i \in 1..Len(s) |-> s[Len(s) + 1 - i]]

\* DocumentStore.get_all(page=1, page_size): newest first, one page
StoreGetAll(docs, page_size) == Take(Reverse(docs), page_size)

\* ------------------------------------------------------------------------
\* Evidence
\* ------------------------------------------------------------------------

\* A pseudo-chunk built from a summary and key points: the document it
\* describes and where the summary came from
Evidence(doc_id, origin) == [document_id |-> doc_id, origin |-> origin]

EvidenceIds(ev) == { ev[i].document_id : i \in 1..Len(ev) }

\* Evidence gathered from the store alone
AllDocumentEvidenceStoreOnly(docs, store_raises) ==
    LET listed   == IF store_raises THEN <<>> ELSE StoreGetAll(docs, PageSize)
        withSum  == SelectSeq(listed, LAMBDA d : d.summary)
    IN  [i \in 1..Len(withSum) |-> Evidence(withSum[i].id, "store")]

\* FactCheckerService._get_all_document_evidence.  store_raises: the read
\* of the store raised.
AllDocumentEvidence(docs, store_raises) ==
    LET listed   == IF store_raises THEN <<>> ELSE StoreGetAll(docs, PageSize)
        withSum  == SelectSeq(listed, LAMBDA d : d.summary)
        fromStore == [i \in 1..Len(withSum) |-> Evidence(withSum[i].id, "store")]
    IN  IF fromStore # <<>> THEN fromStore
        ELSE [i \in 1..Len(DOCUMENT_CONTEXT) |-> Evidence(DOCUMENT_CONTEXT[i], "static")]

\* A lookup that gives up when the read of the store raises
DocumentContextAborting(docs, document_id, store_raises) ==
    IF store_raises THEN <<>>
    ELSE IF document_id \in StoredIds(docs) /\ StoreGet(docs, document_id).summary
    THEN << Evidence(document_id, "store") >>
    ELSE IF document_id \in Range(DOCUMENT_CONTEXT)
    THEN << Evidence(document_id, "static") >>
    ELSE <<>>

\* RAGEngine._get_document_context, as the sequence of evidence it yields
\* (empty for None)
DocumentContext(docs, document_id, store_raises) ==
    LET doc == IF store_raises THEN NoDoc ELSE StoreGet(docs, document_id)
    IN  IF ~store_raises /\ document_id \in StoredIds(docs) /\ doc.summary
        THEN << Evidence(document_id, "store") >>
        ELSE IF document_id \in Range(DOCUMENT_CONTEXT)
        THEN << Evidence(document_id, "static") >>
        ELSE <<>>


\* ------------------------------------------------------------------------
\* Requests, calls and results
\* ------------------------------------------------------------------------

NoRequest == [op |-> "none", text |-> <<>>, document_id |-> "", language |-> "en"]

NoLocal == [op |-> "none"]

NoResult == [status |-> "none"]

\* An exception that left the handler
Raised(exc, msg) == [status |-> "raised", exc |-> exc, msg |-> msg]

\* One call out of the handler: the function, whether it returned (ok) or
\* raised, and the evidence it was given (providers only)
Call(fn, ok, ev) == [fn |-> fn, ok |-> ok, evidence |-> ev]

ProviderFns(cap) == { "azure_openai." \o cap, "gemini." \o cap }

\* ------------------------------------------------------------------------
\* Fact check: the provider side
\* ------------------------------------------------------------------------

FactCheckOutput(v, c, expl, items) ==
    Value("dict", [ keys |-> FactCheckKeys, verdict |-> [type |-> "str", s |-> v],
                    confidence |-> c, explanation |-> expl,
                    evidence |-> [type |-> "list", items |-> items] ])

\* azure_openai.py:215-223: json.loads(result), or the default built from
\* the raw text when json.loads raises
AzureFactCheckParse(raw) ==
    IF JsonLoads(raw).type # "error" THEN JsonLoads(raw)
    ELSE FactCheckOutput("unverifiable", 30, Text("raw[:500]", raw.shape), <<>>)

\* azure_openai.py:231-237: the fallback to Gemini failed too
BothFailed(azure_error) ==
    FactCheckOutput("unverifiable", 0,
        Text("Both Azure OpenAI and Gemini failed. Error: ", azure_error), <<>>)

\* gemini_client.py:247-259: the object found in the response, or the
\* default when none is found or it does not parse
GeminiFactCheckParse(raw) ==
    IF GeminiExtract(raw).type = "dict" THEN GeminiExtract(raw)
    ELSE FactCheckOutput("unverifiable", 0,
             Text("Unable to verify this claim with available documents.", ""), <<>>)

\* azure_openai.py:186-189  relevant_chunks[:5] go into the prompt
AzurePrompt(evidence) == Take(evidence, AzurePromptChunks)

\* gemini_client.py:212-214  every chunk goes into the prompt
GeminiPrompt(evidence) == evidence

\* ------------------------------------------------------------------------
\* Fact check: FactCheckerService.check_claim from the provider's answer on
\* ------------------------------------------------------------------------

\* str.lower() on the spellings the generated outputs use
Lower(s) ==
    CASE s = "TRUE"  -> "true"
      [] s = "False" -> "false"
      [] OTHER       -> s

Get(obj, key, value, default) == IF key \in obj.keys THEN value ELSE default

\* fact_checker.py:145-152
VerdictOf(obj) ==
    LET verdict_str == Lower(Get(obj, "verdict", obj.verdict.s, "unverifiable"))
    IN  IF verdict_str \in FactCheckVerdict THEN verdict_str ELSE "unverifiable"

\* fact_checker.py:159-166  one entry of the result's evidence list
ResultEvidence(ev, verdict) ==
    [ document_id    |-> Get(ev, "document_id", ev.document_id, ""),
      document_title |-> Get(ev, "source", ev.source,
                             Get(ev, "document_title", ev.document_title,
                                 "Government Document")),
      section        |-> "Document Summary",
      quote          |-> Get(ev, "quote", ev.quote, ""),
      supports_claim |-> Get(ev, "supports_claim", ev.supports_claim,
                             verdict = "true") ]

\* fact_checker.py:155-166
EvidenceList(obj, verdict) ==
    LET llm_evidence == Get(obj, "evidence", obj.evidence.items, <<>>)
        shown == Take(llm_evidence, MaxEvidence)
    IN  [i \in 1..Len(shown) |-> ResultEvidence(shown[i], verdict)]

\* The exception fact_checker.py:145-166 raises on the provider's answer,
\* "" when it raises none: a value without .get, a verdict without
\* .lower, an evidence value that cannot be sliced, an evidence item
\* without .get.
BuildError(llm_result) ==
    LET obj == llm_result.obj
        shown == Take(obj.evidence.items, MaxEvidence)
    IN  IF llm_result.type # "dict" THEN "AttributeError"
        ELSE IF "verdict" \in obj.keys /\ obj.verdict.type # "str" THEN "AttributeError"
        ELSE IF "evidence" \in obj.keys /\ obj.evidence.type # "list" THEN "TypeError"
        ELSE IF "evidence" \in obj.keys /\ \E i \in 1..Len(shown) : shown[i].type # "dict"
             THEN "AttributeError"
        ELSE ""

FactCheckResult(claim, verdict, confidence, explanation, evidence, language, provider) ==
    [ status |-> "returned", claim |-> claim, verdict |-> verdict,
      confidence |-> confidence, explanation |-> explanation,
      evidence |-> evidence, language |-> language, llm_provider |-> provider ]

\* fact_checker.py:88-96
TooShortResult(claim, language, provider) ==
    FactCheckResult(claim, "unverifiable", 0,
        Text("Please provide a more detailed claim to verify.", ""), <<>>,
        language, provider)

\* fact_checker.py:115-124
NoDocumentsResult(claim, language, provider) ==
    FactCheckResult(claim, "unverifiable", 0,
        Text("No government documents are available to verify this claim.", ""),
        <<>>, language, provider)

\* An error result that does not tell the error
LlmErrorResultSilent(claim, language, provider, error) ==
    FactCheckResult(claim, "unverifiable", 0,
        Text("Error during fact checking: ", ""), <<>>, language, provider)

\* fact_checker.py:134-142
LlmErrorResult(claim, language, provider, error) ==
    FactCheckResult(claim, "unverifiable", 0,
        Text("Error during fact checking: ", error), <<>>, language, provider)

\* fact_checker.py:168-185  explanation is the explanation after the
\* translation step
BuiltResult(llm_result, claim, language, provider, explanation) ==
    LET obj == llm_result.obj
        verdict == VerdictOf(obj)
    IN  FactCheckResult(claim, verdict, Get(obj, "confidence", obj.confidence, 50),
                        explanation, EvidenceList(obj, verdict), language, provider)

\* fact_checker.py:168
ExplanationOf(obj) ==
    Get(obj, "explanation", obj.explanation,
        Text("Unable to provide detailed explanation.", ""))


\* ------------------------------------------------------------------------
\* Initial state
\* ------------------------------------------------------------------------

Init ==
    /\ settings \in [azure_openai : BOOLEAN, gemini : BOOLEAN, translator : BOOLEAN]
    /\ documents \in InitialStores
    /\ fact_checker = "None"
    /\ rag_engine = "None"
    /\ pc = "idle"
    /\ req = NoRequest
    /\ local = NoLocal
    /\ calls = <<>>
    /\ result = NoResult
    /\ search_client = "None"
    /\ azure_index = {}
    /\ memory_store = <<>>
    /\ deleting = NoDelete
    /\ index_call = NoIndexCall

\* ------------------------------------------------------------------------
\* POST /fact-check: routes.fact_check, get_fact_checker, check_claim
\* ------------------------------------------------------------------------

\* check_claim's locals; its parameter claim, which line 99 rebinds to the
\* sanitized claim, is req.text.  raw is the shape of the completion the
\* client last received (result in azure_openai.py:212, response in
\* gemini_client.py:245), "" before any.
FactCheckLocal(search_translated, evidence, llm_result, azure_error) ==
    [ op |-> "fact_check", search_translated |-> search_translated,
      all_evidence |-> evidence, llm_result |-> llm_result,
      azure_error |-> azure_error, raw |-> "" ]

NoValue == Value("unset", NoObject)

\* fact_checker.get_fact_checker (fact_checker.py:236-241) building the
\* service on first use: FactCheckerService.__init__ calls get_llm_client,
\* which raises ValueError when no provider is configured.
FactCheckBegin(claim, language) ==
    /\ pc = "idle"
    /\ req' = [op |-> "fact_check", text |-> claim, document_id |-> "",
               language |-> language]
    /\ calls' = <<>>
    /\ local' = FactCheckLocal(FALSE, <<>>, NoValue, "")
    /\ IF fact_checker = "None" /\ get_available_llm(settings) = "none"
       THEN /\ result' = Raised("ValueError", "No LLM provider configured")
            /\ pc' = "done"
            /\ UNCHANGED fact_checker
       ELSE /\ fact_checker' = IF fact_checker = "None"
                               THEN get_available_llm(settings) ELSE fact_checker
            /\ result' = NoResult
            /\ pc' = "validating"
    /\ UNCHANGED << index_vars, settings, documents, rag_engine >>

\* What the translator does with the claim (fact_checker.py:103-109):
\*   "detect_raises"   detect_language raised
\*   "no_translation"  the detected language is "en" or its confidence <= 0.7
\*   "translate_raises", "translated"   translate was called
ClaimTranslations == {"detect_raises", "no_translation", "translate_raises", "translated"}

ClaimTranslationCalls(outcome) ==
    CASE outcome = "detect_raises"    ->
             << Call("translator.detect_language", FALSE, <<>>) >>
      [] outcome = "no_translation"   ->
             << Call("translator.detect_language", TRUE, <<>>) >>
      [] outcome = "translate_raises" ->
             << Call("translator.detect_language", TRUE, <<>>),
                Call("translator.translate", FALSE, <<>>) >>
      [] outcome = "translated"       ->
             << Call("translator.detect_language", TRUE, <<>>),
                Call("translator.translate", TRUE, <<>>) >>

\* fact_checker.py:86-109: validation, sanitizing, translation of the claim
FactCheckValidate(outcome) ==
    /\ pc = "validating"
    /\ req.op = "fact_check"
    /\ IF ClaimTooShort(req.text)
       THEN /\ outcome = "no_translation"
            /\ result' = TooShortResult(req.text, req.language, fact_checker)
            /\ pc' = "done"
            /\ UNCHANGED << req, local, calls >>
       ELSE /\ req' = [req EXCEPT !.text = FactCheckerSanitize(req.text)]
            /\ IF req.language # "en" /\ TranslatorConfigured(settings)
               THEN /\ calls' = calls \o ClaimTranslationCalls(outcome)
                    /\ local' = [local EXCEPT
                                   !.search_translated = (outcome = "translated")]
               ELSE /\ outcome = "no_translation"
                    /\ UNCHANGED << local, calls >>
            /\ pc' = "retrieving"
            /\ UNCHANGED result
    /\ UNCHANGED << index_vars, settings, documents, fact_checker, rag_engine >>

\* fact_checker.py:111-124: the evidence is gathered
FactCheckRetrieve(store_raises) ==
    /\ pc = "retrieving"
    /\ req.op = "fact_check"
    /\ LET all_evidence == AllDocumentEvidence(documents, store_raises)
       IN  /\ calls' = Append(calls, Call("store.get_all", ~store_raises, <<>>))
           /\ local' = [local EXCEPT !.all_evidence = all_evidence]
           /\ IF all_evidence = <<>>
              THEN /\ result' = NoDocumentsResult(req.text, req.language, fact_checker)
                   /\ pc' = "done"
              ELSE /\ pc' = "synthesizing"
                   /\ UNCHANGED result
    /\ UNCHANGED << index_vars, settings, documents, fact_checker, rag_engine, req >>

\* fact_checker.py:127-131 with AzureOpenAIClient.fact_check up to the
\* fallback (azure_openai.py:212-225): the completion is parsed, or the
\* call failed with the error azure_error.
FactCheckAzure(ok, raw, azure_error) ==
    /\ pc = "synthesizing"
    /\ req.op = "fact_check"
    /\ fact_checker = "azure_openai"
    /\ calls' = Append(calls, Call("azure_openai.fact_check", ok /\ raw.shape # "none",
                                   AzurePrompt(local.all_evidence)))
    /\ IF ok /\ raw.shape # "none"
       THEN /\ azure_error = ""
            /\ local' = [local EXCEPT !.llm_result = AzureFactCheckParse(raw),
                                      !.raw = raw.shape]
            /\ pc' = "building"
       ELSE /\ IF ok THEN azure_error = NoneSliceError ELSE azure_error \in AzureErrors
            /\ local' = [local EXCEPT !.azure_error = azure_error]
            /\ pc' = "failover"
    /\ UNCHANGED << index_vars, settings, documents, fact_checker, rag_engine, req, result >>

\* azure_openai.py:226-237: the fallback to Gemini.  get_gemini_client
\* raises when GEMINI_API_KEY is not set (gemini_client.py:18-19), before
\* any call to Gemini.
FactCheckFailover(ok, raw) ==
    /\ pc = "failover"
    /\ req.op = "fact_check"
    /\ IF ~settings.gemini
       THEN /\ ~ok
            /\ calls' = calls
            /\ local' = [local EXCEPT !.llm_result = BothFailed(local.azure_error)]
       ELSE /\ calls' = Append(calls, Call("gemini.fact_check", ok,
                                           GeminiPrompt(local.all_evidence)))
            /\ local' = [local EXCEPT
                           !.llm_result = IF ok THEN GeminiFactCheckParse(raw)
                                          ELSE BothFailed(local.azure_error),
                           !.raw = IF ok THEN raw.shape ELSE ""]
    /\ pc' = "building"
    /\ UNCHANGED << index_vars, settings, documents, fact_checker, rag_engine, req, result >>

\* fact_checker.py:127-142 with GeminiClient.fact_check as the active
\* client: an exception of _generate reaches check_claim's handler.
FactCheckGemini(ok, raw, error) ==
    /\ pc = "synthesizing"
    /\ req.op = "fact_check"
    /\ fact_checker = "gemini"
    /\ calls' = Append(calls, Call("gemini.fact_check", ok,
                                   GeminiPrompt(local.all_evidence)))
    /\ IF ok
       THEN /\ error = ""
            /\ local' = [local EXCEPT !.llm_result = GeminiFactCheckParse(raw),
                                      !.raw = raw.shape]
            /\ pc' = "building"
            /\ UNCHANGED result
       ELSE /\ error \in GeminiErrors
            /\ result' = LlmErrorResult(req.text, req.language, fact_checker, error)
            /\ pc' = "done"
            /\ UNCHANGED local
    /\ UNCHANGED << index_vars, settings, documents, fact_checker, rag_engine, req >>

\* What the translator does with a text it is given: "translated", "raises",
\* or "unchanged" (the service answered without a translation,
\* azure_translator.py:94-105)
Translations == {"translated", "raises", "unchanged"}

\* fact_checker.py:144-185: the result is built from the provider's answer
\* and the explanation translated
FactCheckBuild(outcome) ==
    /\ pc = "building"
    /\ req.op = "fact_check"
    /\ LET llm_result == local.llm_result
           explanation == ExplanationOf(llm_result.obj)
       IN  IF BuildError(llm_result) # ""
           THEN /\ outcome = "unchanged"
                /\ result' = Raised(BuildError(llm_result), "")
                /\ calls' = calls
           ELSE IF req.language # "en" /\ TranslatorConfigured(settings)
           THEN /\ calls' = Append(calls, Call("translator.translate",
                                               outcome # "raises", <<>>))
                /\ result' = BuiltResult(llm_result, req.text, req.language,
                                 fact_checker,
                                 IF outcome = "translated"
                                 THEN Translated(explanation, req.language)
                                 ELSE explanation)
           ELSE /\ outcome = "unchanged"
                /\ calls' = calls
                /\ result' = BuiltResult(llm_result, req.text, req.language,
                                         fact_checker, explanation)
    /\ pc' = "done"
    /\ UNCHANGED << index_vars, settings, documents, fact_checker, rag_engine, req, local >>

\* ------------------------------------------------------------------------
\* Question answering: the provider side
\* ------------------------------------------------------------------------

\* The object a provider answers a question with
AnswerObject(keys, confidence) ==
    [keys |-> keys, answer |-> Text("model", "model answer"), confidence |-> confidence]

NoAnswer == AnswerObject({}, 0)

\* Raw completions for a question: prose, prose that says the information
\* is "not available", and JSON objects with and without their keys
AnswerTexts ==
    { Raw(sh, NoAnswer) : sh \in {"prose", "prose_not_available", "prose_braces"} }
    \cup { Raw("object", AnswerObject(keys, 90)) :
             keys \in {{"answer", "confidence"}, {"answer"}, {}} }
    \cup { Raw("fenced_object", AnswerObject({"answer", "confidence"}, 90)) }

\* azure_openai.py:162-166: the completion is the answer
AzureAnswer(raw) ==
    [ keys |-> {"answer", "confidence"}, answer |-> Text("raw", raw.shape),
      confidence |-> IF raw.shape = "prose_not_available" THEN 30 ELSE 85 ]

\* azure_openai.py:174-178
BothFailedAnswer(azure_error) ==
    [ keys |-> {"answer", "confidence"},
      answer |-> Text("Sorry, both Azure OpenAI and Gemini failed. Please check your API configuration. Error: ",
                      azure_error),
      confidence |-> 0 ]

\* gemini_client.py:196-207
GeminiAnswer(raw) ==
    IF GeminiExtract(raw).type = "dict" THEN raw.obj
    ELSE [ keys |-> {"answer", "confidence", "citations"},
           answer |-> Text("raw", raw.shape), confidence |-> 50 ]

\* ------------------------------------------------------------------------
\* POST /ask, POST /documents/{doc_id}/ask: get_rag_engine, RAGEngine.ask
\* ------------------------------------------------------------------------

AskLocal(doc_context, answer, azure_error) ==
    [ op |-> "ask", doc_context |-> doc_context, llm_result |-> answer,
      azure_error |-> azure_error ]

AskResult(answer, citations, confidence, language, provider) ==
    [ status |-> "returned", answer |-> answer, citations |-> citations,
      confidence |-> confidence, language |-> language, llm_provider |-> provider ]

\* The document ids questions are asked about: a stored one, one of the
\* built-in table, one that is neither
AskedIds == { FreshIds[1], DOCUMENT_CONTEXT[1], "unknown-doc" }

\* Who calls RAGEngine.ask:
\*   "ask_document"  routes.py:126-140, after store.get found the record
\*   "ask_general"   routes.py:480-488, document_id=None (modelled as "")
\*   "ask"           the method called with any document_id
AskCallers == {"ask_document", "ask_general", "ask"}

\* get_rag_engine (rag_engine.py:306-311) building the engine on first use,
\* then the entry into ask
AskBegin(caller, question, document_id, language) ==
    /\ pc = "idle"
    /\ caller = "ask_general" => document_id = ""
    /\ caller = "ask_document" => document_id \in StoredIds(documents)
    /\ req' = [op |-> "ask", text |-> question, document_id |-> document_id,
               language |-> language]
    /\ calls' = <<>>
    /\ local' = AskLocal(<<>>, NoAnswer, "")
    /\ IF rag_engine = "None" /\ get_available_llm(settings) = "none"
       THEN /\ result' = Raised("ValueError", "No LLM provider configured")
            /\ pc' = "done"
            /\ UNCHANGED rag_engine
       ELSE /\ rag_engine' = IF rag_engine = "None"
                             THEN get_available_llm(settings) ELSE rag_engine
            /\ result' = NoResult
            /\ pc' = "validating"
    /\ UNCHANGED << index_vars, settings, documents, fact_checker >>

\* rag_engine.py:160-171
AskValidate ==
    /\ pc = "validating"
    /\ req.op = "ask"
    /\ IF QuestionEmpty(req.text)
       THEN /\ result' = AskResult(Text("Please ask a question.", ""), <<>>, 0,
                                   req.language, rag_engine)
            /\ pc' = "done"
            /\ UNCHANGED req
       ELSE /\ req' = [req EXCEPT !.text = RagSanitize(req.text)]
            /\ pc' = "retrieving"
            /\ UNCHANGED result
    /\ UNCHANGED << index_vars, settings, documents, fact_checker, rag_engine, local, calls >>

\* Reads that start with a similarity search of the index
DocumentContextCallsIndexFirst(docs, document_id, store_raises) ==
    << Call("azure_search.search", TRUE, <<>>),
       Call("store.get", ~store_raises, <<>>) >>

\* The reads _get_document_context makes, in order
DocumentContextCalls(docs, document_id, store_raises) ==
    << Call("store.get", ~store_raises, <<>>) >>
    \o IF ~store_raises /\ document_id \in StoredIds(docs)
          /\ StoreGet(docs, document_id).summary
       THEN <<>>
       ELSE << Call("DOCUMENT_CONTEXT", document_id \in Range(DOCUMENT_CONTEXT), <<>>) >>

\* rag_engine.py:173-185
AskRetrieve(store_raises) ==
    /\ pc = "retrieving"
    /\ req.op = "ask"
    /\ LET doc_context == IF req.document_id # ""
                          THEN DocumentContext(documents, req.document_id, store_raises)
                          ELSE <<>>
       IN  /\ IF req.document_id # ""
              THEN calls' = calls \o DocumentContextCalls(documents, req.document_id,
                                                           store_raises)
              ELSE /\ ~store_raises
                   /\ calls' = calls
           /\ local' = [local EXCEPT !.doc_context = doc_context]
           /\ IF doc_context = <<>>
              THEN /\ result' = AskResult(
                           Text("I couldn't find the document you're asking about. Please select a document first.", ""),
                           <<>>, 0, req.language, rag_engine)
                   /\ pc' = "done"
              ELSE /\ pc' = "synthesizing"
                   /\ UNCHANGED result
    /\ UNCHANGED << index_vars, settings, documents, fact_checker, rag_engine, req >>

\* str(e) of the AttributeError raised by answer.lower() when the
\* completion's content is None (azure_openai.py:165)
NoLowerError == "'NoneType' object has no attribute 'lower'"

\* rag_engine.py:198-203 with AzureOpenAIClient.answer_question up to the
\* fallback (azure_openai.py:160-168).  A completion whose content is None
\* fails at answer.lower() inside the try.
AskAzure(ok, raw, azure_error) ==
    /\ pc = "synthesizing"
    /\ req.op = "ask"
    /\ rag_engine = "azure_openai"
    /\ calls' = Append(calls, Call("azure_openai.answer_question",
                                   ok /\ raw.shape # "none", local.doc_context))
    /\ IF ok /\ raw.shape # "none"
       THEN /\ azure_error = ""
            /\ local' = [local EXCEPT !.llm_result = AzureAnswer(raw)]
            /\ pc' = "building"
       ELSE /\ IF ok THEN azure_error = NoLowerError
                     ELSE azure_error \in AzureErrors
            /\ local' = [local EXCEPT !.azure_error = azure_error]
            /\ pc' = "failover"
    /\ UNCHANGED << index_vars, settings, documents, fact_checker, rag_engine, req, result >>

\* azure_openai.py:169-178
AskFailover(ok, raw) ==
    /\ pc = "failover"
    /\ req.op = "ask"
    /\ IF ~settings.gemini
       THEN /\ ~ok
            /\ calls' = calls
            /\ local' = [local EXCEPT !.llm_result = BothFailedAnswer(local.azure_error)]
       ELSE /\ calls' = Append(calls, Call("gemini.answer_question", ok,
                                           local.doc_context))
            /\ local' = [local EXCEPT !.llm_result =
                            IF ok THEN GeminiAnswer(raw)
                            ELSE BothFailedAnswer(local.azure_error)]
    /\ pc' = "building"
    /\ UNCHANGED << index_vars, settings, documents, fact_checker, rag_engine, req, result >>

\* rag_engine.py:198-212 with GeminiClient.answer_question as the active
\* client
AskGemini(ok, raw, error) ==
    /\ pc = "synthesizing"
    /\ req.op = "ask"
    /\ rag_engine = "gemini"
    /\ calls' = Append(calls, Call("gemini.answer_question", ok, local.doc_context))
    /\ IF ok
       THEN /\ error = ""
            /\ local' = [local EXCEPT !.llm_result = GeminiAnswer(raw)]
            /\ pc' = "building"
            /\ UNCHANGED result
       ELSE /\ error \in GeminiErrors
            /\ result' = AskResult(
                    Text("Sorry, I encountered an error while processing your question. Please try again. Error: ",
                         error),
                    <<>>, 0, req.language, rag_engine)
            /\ pc' = "done"
            /\ UNCHANGED local
    /\ UNCHANGED << index_vars, settings, documents, fact_checker, rag_engine, req >>

\* rag_engine.py:215-221  the one citation of an answer
Citation(document_id) ==
    [ section |-> "Document Summary", document_id |-> document_id,
      relevance_score |-> 90 ]

\* rag_engine.py:214-240
AskBuild(outcome) ==
    /\ pc = "building"
    /\ req.op = "ask"
    /\ LET obj == local.llm_result
           answer == Get(obj, "answer", obj.answer,
                         Text("I couldn't generate an answer.", ""))
           confidence == Get(obj, "confidence", obj.confidence, 70)
           citations == << Citation(req.document_id) >>
       IN  IF req.language # "en" /\ TranslatorConfigured(settings)
           THEN /\ calls' = Append(calls, Call("translator.translate",
                                               outcome # "raises", <<>>))
                /\ result' = AskResult(IF outcome = "translated"
                                       THEN Translated(answer, req.language)
                                       ELSE answer,
                                       citations, confidence, req.language, rag_engine)
           ELSE /\ outcome = "unchanged"
                /\ calls' = calls
                /\ result' = AskResult(answer, citations, confidence, req.language,
                                       rag_engine)
    /\ pc' = "done"
    /\ UNCHANGED << index_vars, settings, documents, fact_checker, rag_engine, req, local >>

\* ------------------------------------------------------------------------
\* RAGEngine.summarize_document and RAGEngine.generate_timeline
\* ------------------------------------------------------------------------

CapabilityLocal(summary, key_points, timeline) ==
    [ op |-> "capability", summary |-> summary, key_points |-> key_points,
      timeline |-> timeline ]

NoText == Text("", "")

\* The client method behind each step of the two operations
ClientFn(provider, method) == provider \o "." \o method

\* str(e) of what the active client's _generate raises
\* (azure_openai.py:65-66, gemini_client.py:274-276)
GenerateErrors(provider) == IF provider = "azure_openai" THEN AzureErrors ELSE GeminiErrors

\* get_rag_engine, then the entry into summarize_document
\* (rag_engine.py:242-259) or generate_timeline (rag_engine.py:261-290)
CapabilityBegin(op, language) ==
    /\ pc = "idle"
    /\ req' = [op |-> op, text |-> <<>>, document_id |-> "", language |-> language]
    /\ calls' = <<>>
    /\ local' = CapabilityLocal(NoText, NoText, NoText)
    /\ IF rag_engine = "None" /\ get_available_llm(settings) = "none"
       THEN /\ result' = Raised("ValueError", "No LLM provider configured")
            /\ pc' = "done"
            /\ UNCHANGED rag_engine
       ELSE /\ rag_engine' = IF rag_engine = "None"
                             THEN get_available_llm(settings) ELSE rag_engine
            /\ result' = NoResult
            /\ pc' = IF op = "summarize_document" THEN "summarizing" ELSE "timeline"
    /\ UNCHANGED << index_vars, settings, documents, fact_checker >>

\* rag_engine.py:248 with generate_summary (azure_openai.py:68-81,
\* gemini_client.py:34-64): what _generate raises leaves summarize_document
SummarizeSummary(ok, error) ==
    /\ pc = "summarizing"
    /\ calls' = Append(calls, Call(ClientFn(rag_engine, "generate_summary"), ok, <<>>))
    /\ IF ok
       THEN /\ error = ""
            /\ local' = [local EXCEPT !.summary = Text("model", "model summary")]
            /\ pc' = "extracting"
            /\ UNCHANGED result
       ELSE /\ error \in GenerateErrors(rag_engine)
            /\ result' = Raised("Exception", error)
            /\ pc' = "done"
            /\ UNCHANGED local
    /\ UNCHANGED << index_vars, settings, documents, fact_checker, rag_engine, req >>

\* How extract_key_points reads the completion (azure_openai.py:93-102,
\* gemini_client.py:89-100): a JSON list, lines of text, or nothing
KeyPointReadings == {"model key points", "model lines", "no key points"}

\* rag_engine.py:249 with extract_key_points
SummarizeKeyPoints(ok, reading, error) ==
    /\ pc = "extracting"
    /\ calls' = Append(calls, Call(ClientFn(rag_engine, "extract_key_points"), ok, <<>>))
    /\ IF ok
       THEN /\ error = ""
            /\ local' = [local EXCEPT !.key_points = Text("model", reading)]
            /\ pc' = "translating"
            /\ UNCHANGED result
       ELSE /\ error \in GenerateErrors(rag_engine)
            /\ reading = "no key points"
            /\ result' = Raised("Exception", error)
            /\ pc' = "done"
            /\ UNCHANGED local
    /\ UNCHANGED << index_vars, settings, documents, fact_checker, rag_engine, req >>

SummaryResult(summary, key_points, language) ==
    [ status |-> "returned", summary |-> summary, key_points |-> key_points,
      language |-> language ]

\* rag_engine.py:251-259: translate and translate_batch are awaited outside
\* any try; what they raise leaves summarize_document
SummarizeTranslate(outcome) ==
    /\ pc = "translating"
    /\ req.op = "summarize_document"
    /\ IF req.language # "en" /\ TranslatorConfigured(settings)
       THEN IF outcome = "raises"
            THEN /\ calls' = Append(calls, Call("translator.translate", FALSE, <<>>))
                 /\ result' = Raised("ValueError", "Translation error")
            ELSE /\ calls' = calls \o << Call("translator.translate", TRUE, <<>>),
                                        Call("translator.translate_batch", TRUE, <<>>) >>
                 /\ result' = IF outcome = "translated"
                              THEN SummaryResult(Translated(local.summary, req.language),
                                       Translated(local.key_points, req.language),
                                       req.language)
                              ELSE SummaryResult(local.summary, local.key_points,
                                                 req.language)
       ELSE /\ outcome = "unchanged"
            /\ calls' = calls
            /\ result' = SummaryResult(local.summary, local.key_points, req.language)
    /\ pc' = "done"
    /\ UNCHANGED << index_vars, settings, documents, fact_checker, rag_engine, req, local >>

\* How generate_timeline reads the completion (azure_openai.py:131-138,
\* gemini_client.py:147-160): the parsed object or the client's default
TimelineReadings == {"model timeline", "default timeline"}

\* rag_engine.py:268-271 with generate_timeline
TimelineGenerate(ok, reading, error) ==
    /\ pc = "timeline"
    /\ calls' = Append(calls, Call(ClientFn(rag_engine, "generate_timeline"), ok, <<>>))
    /\ IF ok
       THEN /\ error = ""
            /\ local' = [local EXCEPT !.timeline = Text("model", reading)]
            /\ pc' = "translating"
            /\ UNCHANGED result
       ELSE /\ error \in GenerateErrors(rag_engine)
            /\ reading = "default timeline"
            /\ result' = Raised("Exception", error)
            /\ pc' = "done"
            /\ UNCHANGED local
    /\ UNCHANGED << index_vars, settings, documents, fact_checker, rag_engine, req >>

TimelineResult(timeline) == [status |-> "returned", timeline |-> timeline]

\* rag_engine.py:273-290: the sections are translated outside any try
TimelineTranslate(outcome) ==
    /\ pc = "translating"
    /\ req.op = "generate_timeline"
    /\ IF req.language # "en" /\ TranslatorConfigured(settings)
       THEN /\ calls' = Append(calls, Call("translator.translate",
                                           outcome # "raises", <<>>))
            /\ result' = CASE outcome = "raises" ->
                                  Raised("ValueError", "Translation error")
                           [] outcome = "translated" ->
                                  TimelineResult(Translated(local.timeline, req.language))
                           [] OTHER -> TimelineResult(local.timeline)
       ELSE /\ outcome = "unchanged"
            /\ calls' = calls
            /\ result' = TimelineResult(local.timeline)
    /\ pc' = "done"
    /\ UNCHANGED << index_vars, settings, documents, fact_checker, rag_engine, req, local >>

\* The response has been sent; the next request can be taken
Finish ==
    /\ pc = "done"
    /\ pc' = "idle"
    /\ req' = NoRequest
    /\ local' = NoLocal
    /\ calls' = <<>>
    /\ result' = NoResult
    /\ UNCHANGED << index_vars, settings, documents, fact_checker, rag_engine >>

\* The steps of a fact check, the providers answering with one of raws
FactCheckSteps(raws) ==
    \/ \E claim \in Claims, language \in Languages : FactCheckBegin(claim, language)
    \/ \E outcome \in ClaimTranslations : FactCheckValidate(outcome)
    \/ \E store_raises \in BOOLEAN : FactCheckRetrieve(store_raises)
    \/ \E ok \in BOOLEAN, raw \in raws \cup {Raw("none", NoObject)},
          azure_error \in AzureErrors \cup {NoneSliceError, ""} :
             FactCheckAzure(ok, raw, azure_error)
    \/ \E ok \in BOOLEAN, raw \in raws : FactCheckFailover(ok, raw)
    \/ \E ok \in BOOLEAN, raw \in raws, error \in GeminiErrors \cup {""} :
             FactCheckGemini(ok, raw, error)
    \/ \E outcome \in Translations : FactCheckBuild(outcome)

FactCheckNext == FactCheckSteps(RawTexts)

\* The steps of a question, the providers answering with one of raws
AskSteps(raws) ==
    \/ \E caller \in AskCallers, question \in Questions,
          document_id \in AskedIds \cup {""}, language \in Languages :
             AskBegin(caller, question, document_id, language)
    \/ AskValidate
    \/ \E store_raises \in BOOLEAN : AskRetrieve(store_raises)
    \/ \E ok \in BOOLEAN, raw \in raws \cup {Raw("none", NoAnswer)},
          azure_error \in AzureErrors \cup {NoLowerError, ""} :
             AskAzure(ok, raw, azure_error)
    \/ \E ok \in BOOLEAN, raw \in raws : AskFailover(ok, raw)
    \/ \E ok \in BOOLEAN, raw \in raws, error \in GeminiErrors \cup {""} :
             AskGemini(ok, raw, error)
    \/ \E outcome \in Translations : AskBuild(outcome)

AskNext == AskSteps(AnswerTexts)

CapabilityNext ==
    \/ \E op \in {"summarize_document", "generate_timeline"}, language \in Languages :
             CapabilityBegin(op, language)
    \/ \E ok \in BOOLEAN, error \in AzureErrors \cup GeminiErrors \cup {""} :
             SummarizeSummary(ok, error)
    \/ \E ok \in BOOLEAN, reading \in KeyPointReadings,
          error \in AzureErrors \cup GeminiErrors \cup {""} :
             SummarizeKeyPoints(ok, reading, error)
    \/ \E outcome \in Translations : SummarizeTranslate(outcome)
    \/ \E ok \in BOOLEAN, reading \in TimelineReadings,
          error \in AzureErrors \cup GeminiErrors \cup {""} :
             TimelineGenerate(ok, reading, error)
    \/ \E outcome \in Translations : TimelineTranslate(outcome)

\* Completions that are prose, and the completion that is the object asked
\* for
PlainRawTexts ==
    { Raw("prose", NoObject),
      Raw("object", JsonObject(FactCheckKeys, BaseVerdict, 90, BaseEvidence)) }

PlainAnswerTexts ==
    { Raw("prose", NoAnswer),
      Raw("object", AnswerObject({"answer", "confidence"}, 90)) }

\* Every kind of request, one at a time, the providers answering with
\* plain completions
Next ==
    \/ FactCheckSteps(PlainRawTexts)
    \/ AskSteps(PlainAnswerTexts)
    \/ CapabilityNext
    \/ Finish

Spec == Init /\ [][Next]_vars

\* Fact-check requests alone, with every completion of RawTexts
SpecFactCheck == Init /\ [][FactCheckNext \/ Finish]_vars

\* Requests served by the RAG engine alone, with every completion of
\* AnswerTexts
SpecRag == Init /\ [][AskNext \/ CapabilityNext \/ Finish]_vars

\* ------------------------------------------------------------------------
\* Evidence index: services/azure_search.py, and DELETE /documents/{doc_id}
\* ------------------------------------------------------------------------

\* The variables of the request handlers above
request_vars == << settings, documents, fact_checker, rag_engine, pc, req, local, calls, result >>

\* The documents whose chunks are indexed, and the texts of their chunks
IndexedIds == { FreshIds[1], FreshIds[2] }

ChunkTexts == { "text", "revised text" }

\* The values of top_k: one below the default, and the default
TopKs == { 1, DefaultTopK }

\* _generate_chunk_id: the digest of "<document_id>_<chunk_index>".  The
\* string is kept in its three parts; the digest is taken to be free of
\* collisions.
GenerateChunkId(document_id, chunk_index) == << document_id, "_", chunk_index >>

\* The document index_document_chunks builds for chunk i of its argument
ChunkDocument(document_id, i, text) ==
    [id |-> GenerateChunkId(document_id, i), content |-> text,
     document_id |-> document_id, chunk_index |-> i]

\* index_document_chunks' list documents, for n chunks of the same text
ChunkDocuments(document_id, n, text) ==
    [k \in 1..n |-> ChunkDocument(document_id, k - 1, text)]

\* SearchClient.upload_documents: the service stores each document under
\* its key, in place of the one it holds under that key.  Item-level
\* failures are left out: a batch the service accepts is stored whole.
UploadDocumentsAppending(index, batch) == index \cup batch

UploadDocuments(index, batch) ==
    { c \in index : \A d \in batch : d.id # c.id } \cup batch

\* The chunks a filter on document_id lets through; "" is no filter
Filtered(chunks, document_id) ==
    IF document_id = "" THEN chunks
    ELSE { c \in chunks : c.document_id = document_id }

\* delete_document's chunk_ids: the ids the service finds for the document
FoundChunkIdsOfFirstChunk(index, document_id) ==
    { c.id : c \in { f \in Filtered(index, document_id) : f.chunk_index = 0 } }

FoundChunkIds(index, document_id) ==
    { c.id : c \in Filtered(index, document_id) }

\* What _azure_search does with the service's answer: it returns the hits,
\* and an error of the client library leaves it as it was raised
AzureSearchOutcomeSwallowing(reachable, matched, hits) ==
    IF reachable
    THEN [status |-> "returned", matched |-> matched, hits |-> hits]
    ELSE [status |-> "returned", matched |-> matched, hits |-> 0]

AzureSearchOutcome(reachable, matched, hits) ==
    IF reachable
    THEN [status |-> "returned", matched |-> matched, hits |-> hits]
    ELSE Raised("ServiceRequestError", "index unreachable")

\* A coroutine in flight gives way to another one only at an await.  The
\* service's coroutines await nothing: delete_document makes its two calls
\* to the service without giving way between them.
AtAwaitBetweenCalls(task) == TRUE

AtAwait(task) == task.pc = "idle"

\* The state of the index when the service is constructed.  Neither the
\* service nor the delete route reads a record's summary: the stored
\* records all have one.
InitIndex ==
    /\ settings = [azure_openai |-> FALSE, gemini |-> FALSE, translator |-> FALSE]
    /\ documents \in { docs \in InitialStores : \A i \in 1..Len(docs) : docs[i].summary }
    /\ fact_checker = "None"
    /\ rag_engine = "None"
    /\ pc = "idle"
    /\ req = NoRequest
    /\ local = NoLocal
    /\ calls = <<>>
    /\ result = NoResult
    /\ search_client \in {"SearchClient", "None"}
    /\ azure_index = {}
    /\ memory_store = <<>>
    /\ deleting = NoDelete
    /\ index_call = NoIndexCall

\* index_document_chunks(document_id, title, chunks) with n chunks
IndexDocumentChunks(document_id, n, text, reachable) ==
    LET batch == ChunkDocuments(document_id, n, text)
        call == [op |-> "index_document_chunks", document_id |-> document_id,
                 chunks |-> n]
    IN
    /\ AtAwait(deleting)
    /\ search_client = "None" => reachable
    /\ IF search_client = "None" /\ n > 0
       THEN \* _generate_embedding: __init__ returned before it set
            \* _embedding_model
            /\ index_call' = call @@ Raised("AttributeError", "_embedding_model")
            /\ UNCHANGED << azure_index, memory_store >>
       ELSE IF search_client = "None"
       THEN /\ memory_store' = memory_store \o batch
            /\ index_call' = call @@ [status |-> "returned", count |-> Len(batch)]
            /\ UNCHANGED azure_index
       ELSE IF reachable
       THEN /\ azure_index' = UploadDocuments(azure_index, Range(batch))
            /\ index_call' = call @@ [status |-> "returned", count |-> Len(batch)]
            /\ UNCHANGED memory_store
       ELSE /\ index_call' = call @@ Raised("ServiceRequestError", "index unreachable")
            /\ UNCHANGED << azure_index, memory_store >>
    /\ UNCHANGED << search_client, deleting, request_vars >>

\* What search(query, document_id, top_k) can return or raise: of the
\* chunks the filter lets through, the service matches some number to the
\* query and returns at most top_k of them
SearchOutcomes(document_id, top_k, reachable) ==
    LET candidates == Filtered(Range(memory_store), document_id)
    IN
    IF search_client # "None"
    THEN { AzureSearchOutcome(reachable, matched, Min(top_k, matched)) :
               matched \in 0..Cardinality(Filtered(azure_index, document_id)) }
    ELSE IF candidates = {}
    THEN { [status |-> "returned", matched |-> 0, hits |-> 0] }
    ELSE \* _generate_embedding, as in index_document_chunks
         { Raised("AttributeError", "_embedding_model") }

\* search(query, document_id, top_k)
Search(document_id, top_k, reachable) ==
    LET call == [op |-> "search", document_id |-> document_id, reachable |-> reachable]
    IN
    /\ AtAwait(deleting)
    /\ search_client = "None" => reachable
    /\ \E found \in SearchOutcomes(document_id, top_k, reachable) :
           index_call' = call @@ found
    /\ UNCHANGED << search_client, azure_index, memory_store, deleting, request_vars >>

\* delete_document(document_id) up to the end of its first call to the
\* service; without a client, the whole of it
DeleteSearch(document_id, reachable) ==
    LET call == [op |-> "delete_document", document_id |-> document_id]
        chunk_ids == FoundChunkIds(azure_index, document_id)
        kept == SelectSeq(memory_store, LAMBDA c : c.document_id # document_id)
    IN
    /\ AtAwait(deleting)
    /\ search_client = "None" => reachable
    /\ IF search_client = "None"
       THEN /\ memory_store' = kept
            /\ index_call' = call @@ [status |-> "returned",
                                      count |-> Len(memory_store) - Len(kept)]
            /\ UNCHANGED deleting
       ELSE IF ~reachable
       THEN /\ index_call' = call @@ Raised("ServiceRequestError", "index unreachable")
            /\ UNCHANGED << memory_store, deleting >>
       ELSE IF chunk_ids = {}
       THEN /\ index_call' = call @@ [status |-> "returned", count |-> 0]
            /\ UNCHANGED << memory_store, deleting >>
       ELSE /\ deleting' = [pc |-> "found", document_id |-> document_id,
                            chunk_ids |-> chunk_ids]
            /\ index_call' = call @@ [status |-> "running"]
            /\ UNCHANGED memory_store
    /\ UNCHANGED << search_client, azure_index, request_vars >>

\* delete_document from its call of delete_documents to its return
DeleteRemove(reachable) ==
    LET call == [op |-> "delete_document", document_id |-> deleting.document_id]
    IN
    /\ deleting.pc = "found"
    /\ IF reachable
       THEN /\ azure_index' = { c \in azure_index : c.id \notin deleting.chunk_ids }
            /\ index_call' = call @@ [status |-> "returned",
                                      count |-> Cardinality(deleting.chunk_ids)]
       ELSE /\ index_call' = call @@ Raised("ServiceRequestError", "index unreachable")
            /\ UNCHANGED azure_index
    /\ deleting' = NoDelete
    /\ UNCHANGED << search_client, memory_store, request_vars >>

\* DocumentStore.delete
StoreDelete(docs, doc_id) == SelectSeq(docs, LAMBDA d : d.id # doc_id)

\* DELETE /documents/{doc_id}: routes.delete_document
RouteDeleteDocument(doc_id) ==
    LET call == [op |-> "routes.delete_document", document_id |-> doc_id]
    IN
    /\ AtAwait(deleting)
    /\ IF StoreGet(documents, doc_id) = NoDoc
       THEN /\ index_call' = call @@ Raised("HTTPException", "Document not found")
            /\ UNCHANGED documents
       ELSE /\ documents' = StoreDelete(documents, doc_id)
            /\ index_call' = call @@ [status |-> "returned"]
    /\ UNCHANGED << search_client, azure_index, memory_store, deleting, settings, fact_checker, rag_engine, pc, req, local,
                    calls, result >>

IndexNext ==
    \/ \E document_id \in IndexedIds, n \in 0..MaxChunks, text \in ChunkTexts,
          reachable \in BOOLEAN :
            IndexDocumentChunks(document_id, n, text, reachable)
    \/ \E document_id \in IndexedIds \cup {""}, top_k \in TopKs, reachable \in BOOLEAN :
            Search(document_id, top_k, reachable)
    \/ \E document_id \in IndexedIds, reachable \in BOOLEAN :
            DeleteSearch(document_id, reachable)
    \/ \E reachable \in BOOLEAN : DeleteRemove(reachable)
    \/ \E doc_id \in IndexedIds \cup {DOCUMENT_CONTEXT[1]} : RouteDeleteDocument(doc_id)

\* The search service and the delete route, called in any order
SpecIndex == InitIndex /\ [][IndexNext]_vars

\* ------------------------------------------------------------------------
\* Chunker: services/chunker.py
\* ------------------------------------------------------------------------

\* The characters of a text are one-character strings; "NUL" stands for
\* U+0000, "LDQUO" and "RSQUO" for the typographic quotes U+201C and U+2019.

\* The class \s of the characters in use
IsWhitespace(c) == c \in {" ", "\n", "\t"}

\* The class [\x00-\x08\x0b\x0c\x0e-\x1f\x7f-\x9f] of the characters in use
IsControl(c) == c = "NUL"

TypographicQuotes == { "LDQUO", "RSQUO" }

\* The elements of s at the positions of the set kept, in order
AtPositions(s, kept) ==
    [k \in 1..Cardinality(kept) |->
        s[CHOOSE i \in kept : Cardinality({ j \in kept : j <= i }) = k]]

\* re.sub(r'\s+', ' ', text): a run of whitespace becomes one space
CollapseWhitespace(s) ==
    LET spaced == [i \in 1..Len(s) |-> IF IsWhitespace(s[i]) THEN " " ELSE s[i]]
    IN  AtPositions(spaced, { i \in 1..Len(s) :
                                ~(IsWhitespace(s[i]) /\ i > 1 /\ IsWhitespace(s[i - 1])) })

\* str.replace(old, new), scanning from position i
RECURSIVE Replace(_, _, _, _)
Replace(s, old, new, i) ==
    LET found == { k \in i..Len(s) : StartsAt(s, old, k) }
        at == CHOOSE k \in found : \A j \in found : k <= j
    IN  IF found = {} THEN s
        ELSE Replace(SubSeq(s, 1, at - 1) \o new \o SubSeq(s, at + Len(old), Len(s)),
                     old, new, at + Len(new))

\* The string literals of chunker.py:126-127 as Python reads them: the
\* straight double quote, twice replaced by itself, and one literal that
\* opens with three single quotes and runs to the next three
QuoteLiteral == << "\"" >>

TripleQuotedLiteral ==
    << ",", " ", "\"", "'", "\"", ")", ".", "r", "e", "p", "l", "a", "c", "e", "(" >>

\* DocumentChunker._clean_text
CleanText(text) ==
    LET collapsed == CollapseWhitespace(text)
        printable == SelectSeq(collapsed, LAMBDA c : ~IsControl(c))
        doubles   == Replace(Replace(printable, QuoteLiteral, QuoteLiteral, 1),
                             QuoteLiteral, QuoteLiteral, 1)
        singles   == Replace(doubles, TripleQuotedLiteral, << "'" >>, 1)
    IN  Strip(singles)

\* Python's s[a:b] for integers a and b, a negative one counted from the
\* end of s
SliceIndex(s, i) == IF i < 0 THEN (IF Len(s) + i < 0 THEN 0 ELSE Len(s) + i)
                    ELSE Min(i, Len(s))

PySlice(s, a, b) == SubSeq(s, SliceIndex(s, a) + 1, SliceIndex(s, b))

Abs(n) == IF n < 0 THEN 0 - n ELSE n

SentenceTerminators == { ".", "!", "?" }

\* The offset at which the run of whitespace that holds offset i ends,
\* within the first hi characters of text
RECURSIVE WhitespaceEnd(_, _, _)
WhitespaceEnd(text, i, hi) ==
    IF i < hi /\ IsWhitespace(text[i + 1]) THEN WhitespaceEnd(text, i + 1, hi) ELSE i

\* The ends of the matches re.finditer(r'\n\n', ...) finds between the
\* offsets lo and hi of text: a match starts at a line break that an even
\* number of line breaks precedes
ParagraphEnds(text, lo, hi) ==
    { i + 2 : i \in { k \in lo..(hi - 2) :
                       /\ text[k + 1] = "\n"
                       /\ text[k + 2] = "\n"
                       /\ LET run == CHOOSE b \in lo..k :
                                        /\ \A j \in (b + 1)..k : text[j] = "\n"
                                        /\ b = lo \/ text[b] # "\n"
                          IN  (k - run) % 2 = 0 } }

\* _find_sentence_boundary's sentence_endings: the ends of the matches of
\* [.!?]\s+ in text[search_start:position + window], or when there are
\* none the ends of the paragraph breaks in it
SentenceEndings(text, position, window) ==
    LET search_start == IF position - window > 0 THEN position - window ELSE 0
        hi == SliceIndex(text, position + window)
        sentences == { WhitespaceEnd(text, i + 1, hi) :
                         i \in { k \in search_start..(hi - 2) :
                                   /\ text[k + 1] \in SentenceTerminators
                                   /\ IsWhitespace(text[k + 2]) } }
    IN  IF sentences # {} THEN sentences
        ELSE ParagraphEnds(text, search_start, hi)

\* DocumentChunker._find_sentence_boundary
FindSentenceBoundary(text, position, window) ==
    LET endings == SentenceEndings(text, position, window)
        best == CHOOSE e \in endings :
                    \A f \in endings :
                        \/ Abs(e - position) < Abs(f - position)
                        \/ Abs(e - position) = Abs(f - position) /\ e <= f
    IN  IF endings = {} THEN position
        ELSE IF Abs(best - position) < window THEN best
        ELSE position

\* The texts chunk_text is called with: every text of up to MaxText
\* letters, full stops and spaces; every text of up to MaxRawText
\* characters with line breaks, a control character and a typographic
\* quote among them; and texts of letters in which a full stop and a
\* space lie Window characters and more from the start
Words(alphabet, n) == UNION { [1..k -> alphabet] : k \in 0..n }

ChunkerTexts ==
    Words({ "a", ".", " " }, MaxText)
    \cup Words({ "a", " ", "\n", "NUL", "LDQUO" }, MaxRawText)
    \cup { Repeat("a", Window - 2 + k) \o << ".", " ", "a" >> : k \in 1..MaxChunkSize }

\* The configurations DocumentChunker is built with: 0 <= chunk_overlap <
\* chunk_size
ChunkerConfigs ==
    { [chunk_size |-> cs, chunk_overlap |-> ov] :
        cs \in 1..MaxChunkSize, ov \in 0..(MaxChunkSize - 1) }
    \ { c \in [chunk_size : 1..MaxChunkSize, chunk_overlap : 0..(MaxChunkSize - 1)] :
          c.chunk_overlap >= c.chunk_size }

\* A chunk of chunk_text's result; its page is 0 as no page map is passed
Chunk(chunk_text, start, end) ==
    [text |-> Strip(chunk_text), start |-> start, end |-> end]

\* chunk_text's locals
ChunkLocal(text, chunks, start) ==
    [op |-> "chunk_text", text |-> text, chunks |-> chunks, start |-> start]

ChunkResult(chunks) == [status |-> "returned", chunks |-> chunks]

\* The state in which the chunker is called
InitChunker ==
    /\ settings = [azure_openai |-> FALSE, gemini |-> FALSE, translator |-> FALSE]
    /\ documents = <<>>
    /\ fact_checker = "None"
    /\ rag_engine = "None"
    /\ pc = "idle"
    /\ req = NoRequest
    /\ local = NoLocal
    /\ calls = <<>>
    /\ result = NoResult
    /\ search_client = "None"
    /\ azure_index = {}
    /\ memory_store = <<>>
    /\ deleting = NoDelete
    /\ index_call = NoIndexCall

\* chunk_text(text) up to its loop (chunker.py:45-52), on a chunker built
\* with config
ChunkBegin(text, config) ==
    /\ pc = "idle"
    /\ req' = [op |-> "chunk_text", text |-> text, document_id |-> "", language |-> "en",
               chunk_size |-> config.chunk_size, chunk_overlap |-> config.chunk_overlap]
    /\ calls' = <<>>
    /\ IF text = <<>>
       THEN /\ local' = ChunkLocal(<<>>, <<>>, 0)
            /\ result' = ChunkResult(<<>>)
            /\ pc' = "done"
       ELSE /\ local' = ChunkLocal(CleanText(text), <<>>, 0)
            /\ result' = NoResult
            /\ pc' = "chunking"
    /\ UNCHANGED << index_vars, settings, documents, fact_checker, rag_engine >>

\* One test of the loop's condition and, when it holds, one run of the
\* loop's body (chunker.py:54-87).  The loop is followed until it has
\* appended more chunks than the text has characters.
ChunkLoop ==
    LET text == local.text
        start == local.start
        position == start + req.chunk_size
        last == position >= Len(text)
        break_point == FindSentenceBoundary(text, position, Window)
        end == IF last THEN Len(text)
               ELSE IF break_point > start THEN break_point
               ELSE position
        chunk_text == IF last THEN PySlice(text, start, Len(text))
                      ELSE PySlice(text, start, end)
        chunks == IF Strip(chunk_text) # <<>>
                  THEN Append(local.chunks, Chunk(chunk_text, start, end))
                  ELSE local.chunks
    IN
    /\ pc = "chunking"
    /\ Len(local.chunks) <= Len(text)
    /\ IF start >= Len(text)
       THEN /\ result' = ChunkResult(local.chunks)
            /\ pc' = "done"
            /\ UNCHANGED local
       ELSE IF last
       THEN /\ local' = [local EXCEPT !.chunks = chunks]
            /\ result' = ChunkResult(chunks)
            /\ pc' = "done"
       ELSE /\ local' = [local EXCEPT !.chunks = chunks,
                                      !.start = end - req.chunk_overlap]
            /\ UNCHANGED << result, pc >>
    /\ UNCHANGED << index_vars, settings, documents, fact_checker, rag_engine, req, calls >>

ChunkerNext ==
    \/ \E text \in ChunkerTexts, config \in ChunkerConfigs : ChunkBegin(text, config)
    \/ ChunkLoop
    \/ Finish

\* Calls of chunk_text, one after the other
SpecChunker == InitChunker /\ [][ChunkerNext]_vars

\* ------------------------------------------------------------------------
\* GET /documents/{doc_id}/timeline: routes.get_document_timeline
\* ------------------------------------------------------------------------

\* A stored record with the two fields the route reads: whether full_text
\* is a non-empty string, and the cached timeline (NoText when the record
\* has none)
TimelineDoc(id, full_text, timeline) ==
    [id |-> id, summary |-> TRUE, full_text |-> full_text, timeline |-> timeline]

TimelineIds == { FreshIds[i] : i \in 1..(MaxDocs + 1) }

\* DocumentStore.update(doc_id, {"timeline": timeline})
StoreUpdate(docs, doc_id, timeline) ==
    [ i \in 1..Len(docs) |->
        IF docs[i].id = doc_id THEN [docs[i] EXCEPT !.timeline = timeline]
        ELSE docs[i] ]

\* The store as uploads left it: records without a cached timeline
InitTimeline ==
    /\ settings \in [azure_openai : BOOLEAN, gemini : BOOLEAN, translator : BOOLEAN]
    /\ documents \in { [i \in 1..n |-> TimelineDoc(FreshIds[i], i > m, NoText)] :
                          n \in 1..MaxDocs, m \in 0..1 }
    /\ fact_checker = "None"
    /\ rag_engine = "None"
    /\ pc = "idle"
    /\ req = NoRequest
    /\ local = NoLocal
    /\ calls = <<>>
    /\ result = NoResult
    /\ search_client = "None"
    /\ azure_index = {}
    /\ memory_store = <<>>
    /\ deleting = NoDelete
    /\ index_call = NoIndexCall

\* routes.py:98-113: the record is looked up; a cached timeline is the
\* response; otherwise get_rag_engine, the check of full_text, and the
\* entry into generate_timeline with the request's language
RouteTimelineBegin(doc_id, language) ==
    /\ pc = "idle"
    /\ req' = [op |-> "generate_timeline", text |-> <<>>, document_id |-> doc_id,
               language |-> language]
    /\ calls' = <<>>
    /\ local' = CapabilityLocal(NoText, NoText, NoText)
    /\ IF doc_id \notin StoredIds(documents)
       THEN /\ result' = Raised("HTTPException", "Document not found")
            /\ pc' = "done"
            /\ UNCHANGED rag_engine
       ELSE IF StoreGet(documents, doc_id).timeline # NoText
       THEN /\ result' = TimelineResult(StoreGet(documents, doc_id).timeline)
            /\ pc' = "done"
            /\ UNCHANGED rag_engine
       ELSE IF rag_engine = "None" /\ get_available_llm(settings) = "none"
       THEN /\ result' = Raised("ValueError", "No LLM provider configured")
            /\ pc' = "done"
            /\ UNCHANGED rag_engine
       ELSE /\ rag_engine' = IF rag_engine = "None"
                             THEN get_available_llm(settings) ELSE rag_engine
            /\ IF StoreGet(documents, doc_id).full_text
               THEN /\ result' = NoResult
                    /\ pc' = "timeline"
               ELSE /\ result' = Raised("HTTPException", "Document text not available")
                    /\ pc' = "done"
    /\ UNCHANGED << index_vars, settings, documents, fact_checker >>

\* routes.py:120-123: what generate_timeline returned is written to the
\* record, and the response is sent
RouteTimelineRespond ==
    /\ pc = "done"
    /\ req.op = "generate_timeline"
    /\ documents' = IF result.status = "returned" /\ calls # <<>>
                    THEN StoreUpdate(documents, req.document_id, result.timeline)
                    ELSE documents
    /\ pc' = "idle"
    /\ req' = NoRequest
    /\ local' = NoLocal
    /\ calls' = <<>>
    /\ result' = NoResult
    /\ UNCHANGED << index_vars, settings, fact_checker, rag_engine >>

TimelineNext ==
    \/ \E doc_id \in TimelineIds, language \in Languages :
             RouteTimelineBegin(doc_id, language)
    \/ \E ok \in BOOLEAN, reading \in TimelineReadings,
          error \in AzureErrors \cup GeminiErrors \cup {""} :
             TimelineGenerate(ok, reading, error)
    \/ \E outcome \in Translations : TimelineTranslate(outcome)
    \/ RouteTimelineRespond

\* Timeline requests, one at a time
SpecTimeline == InitTimeline /\ [][TimelineNext]_vars

\* ------------------------------------------------------------------------
\* Properties
\* ------------------------------------------------------------------------

FactCheckDone == pc = "done" /\ req.op = "fact_check"

AskDone == pc = "done" /\ req.op = "ask"

\* The calls of a request made to a provider for capability cap
ProviderCalls(cap) ==
    SelectSeq(calls, LAMBDA c : c.fn \in ProviderFns(cap))

\* C1: with no provider configured, a fact-check request ends with a
\* result of verdict UNVERIFIABLE and confidence 0.0, and no exception
\* leaves get_fact_checker or check_claim.
C1_NoProviderUnverifiable ==
    (FactCheckDone /\ get_available_llm(settings) = "none")
        => /\ result.status = "returned"
           /\ result.verdict = "unverifiable"
           /\ result.confidence = 0

\* C2: whatever completion a provider returned for a fact check,
\* check_claim returns a result with a verdict of FactCheckVerdict and no
\* exception leaves it.
C2_EveryOutputYieldsResult ==
    (FactCheckDone /\ local.raw # "")
        => /\ result.status = "returned"
           /\ result.verdict \in FactCheckVerdict

\* The capabilities the RAG engine calls on its client
RagCapabilities ==
    {"generate_summary", "extract_key_points", "answer_question", "generate_timeline"}

\* C3: when a capability call on Azure OpenAI failed and Gemini is
\* configured, the same capability is then called exactly once on Gemini.
C3_FailedCallRetriedOnNextProvider ==
    (pc = "done" /\ rag_engine = "azure_openai" /\ settings.gemini)
        => \A cap \in RagCapabilities :
              \A i \in 1..Len(calls) :
                 (calls[i].fn = ClientFn("azure_openai", cap) /\ ~calls[i].ok)
                     => Cardinality({ j \in (i + 1)..Len(calls) :
                                        calls[j].fn = ClientFn("gemini", cap) }) = 1

\* A question about a named document whose context has been looked up
AskRetrieved ==
    /\ req.op = "ask"
    /\ req.document_id # ""
    /\ pc \in {"synthesizing", "failover", "building", "done"}
    /\ calls # <<>>

\* C4: for a question that names a document, the stored record is used
\* when it was read and has a summary; otherwise (record absent, without a
\* summary, or the read raised) the built-in table is consulted and the
\* request goes on; the evidence found is exactly one item of the requested
\* document; there is no evidence only when neither source has the document.
C4_DocumentFallbackOrder ==
    AskRetrieved =>
        LET stored == /\ calls[1].ok
                      /\ \E i \in 1..Len(documents) :
                            documents[i].id = req.document_id /\ documents[i].summary
            static == req.document_id \in Range(DOCUMENT_CONTEXT)
            consulted == Len(calls) >= 2 /\ calls[2].fn = "DOCUMENT_CONTEXT"
        IN  /\ calls[1].fn = "store.get"
            /\ stored => local.doc_context = << Evidence(req.document_id, "store") >>
            /\ stored => ~consulted
            /\ ~stored => consulted
            /\ (~stored /\ static)
                   => local.doc_context = << Evidence(req.document_id, "static") >>
            /\ local.doc_context = <<>> <=> (~stored /\ ~static)
            /\ result.status # "raised"

\* C4 witness: the read of the store raised and the built-in table gave the
\* evidence the provider is about to be called with
C4_Witness ==
    /\ AskRetrieved
    /\ pc = "synthesizing"
    /\ ~calls[1].ok
    /\ local.doc_context = << Evidence(req.document_id, "static") >>

\* The calls of a request that are not calls of the translator
NonTranslatorCalls ==
    SelectSeq(calls, LAMBDA c : c.fn \notin {"translator.detect_language",
                                              "translator.translate"})

\* The evidence of a question or claim has been gathered
Retrieved ==
    /\ req.op \in {"ask", "fact_check"}
    /\ pc \in {"synthesizing", "failover", "building"}

KnownDocuments ==
    LET stored == { documents[i].id : i \in { j \in 1..Len(documents) :
                                                documents[j].summary } }
    IN  IF stored # {} THEN stored ELSE Range(DOCUMENT_CONTEXT)

\* C6: a question or claim without a document_id reaches the provider with
\* one pseudo-chunk per known document.
C6_GlobalRequestUsesAllDocuments ==
    /\ (AskDone /\ req.document_id = "" /\ result.status = "returned"
           /\ ~QuestionEmpty(req.text))
          => \E i \in 1..Len(calls) :
                /\ calls[i].fn \in ProviderFns("answer_question")
                /\ EvidenceIds(calls[i].evidence) = KnownDocuments
    /\ (FactCheckDone /\ ProviderCalls("fact_check") # <<>>
           /\ \E i \in 1..Len(calls) : calls[i].fn = "store.get_all" /\ calls[i].ok)
          => \A i \in 1..Len(ProviderCalls("fact_check")) :
                /\ EvidenceIds(ProviderCalls("fact_check")[i].evidence) = KnownDocuments
                /\ Len(ProviderCalls("fact_check")[i].evidence)
                      = Cardinality(KnownDocuments)

\* C7: every entry of a fact-check result's evidence list carries the
\* document_id of one of the evidence items retrieved for the request.
C7_ResultEvidenceWasRetrieved ==
    (FactCheckDone /\ result.status = "returned")
        => \A i \in 1..Len(result.evidence) :
              result.evidence[i].document_id \in EvidenceIds(local.all_evidence)

\* Every provider called for the fact check failed
AllProvidersFailed ==
    /\ FactCheckDone
    /\ ProviderCalls("fact_check") # <<>>
    /\ \A i \in 1..Len(ProviderCalls("fact_check")) : ~ProviderCalls("fact_check")[i].ok

\* The error text a failed fact check reports: what the active client
\* raised
CausingErrors ==
    IF fact_checker = "azure_openai" THEN {local.azure_error} ELSE GeminiErrors

DegradedResult ==
    /\ result.status = "returned"
    /\ result.verdict = "unverifiable"
    /\ result.confidence = 0
    /\ result.evidence = <<>>
    /\ result.explanation.arg \in CausingErrors
    /\ result.explanation.arg # ""

\* C8 as stated: when every provider failed the result is UNVERIFIABLE with
\* confidence 0.0 and no evidence, and the explanation is the message that
\* embeds the error text.
C8_AllFailedExplainsError ==
    AllProvidersFailed => (DegradedResult /\ result.explanation.lang = "en")

\* C8 amended: when every provider failed the result is UNVERIFIABLE with
\* confidence 0.0 and no evidence; the explanation is the message that
\* embeds the error text, or, when Azure OpenAI is the active provider, the
\* request's language is not English and the translator is configured,
\* what the translator made of that message.
C8_AllFailedExplainsErrorOrTranslation ==
    AllProvidersFailed =>
        /\ DegradedResult
        /\ result.explanation.lang \in {"en", req.language}
        /\ result.explanation.lang # "en"
              => /\ fact_checker = "azure_openai"
                 /\ TranslatorConfigured(settings)
                 /\ \E i \in 1..Len(calls) :
                       calls[i].fn = "translator.translate" /\ calls[i].ok
                       /\ \A j \in 1..Len(calls) :
                             calls[j].fn \in ProviderFns("fact_check") => j < i

\* C8 witness: Gemini, the only provider, failed and the result tells its
\* error
C8_Witness ==
    /\ AllProvidersFailed
    /\ fact_checker = "gemini"
    /\ result.status = "returned"
    /\ result.explanation = Text("Error during fact checking: ", "429 quota exceeded")

\* Completions that neither client can read as structured data
UnparseableShapes == {"prose", "prose_braces"}

\* C9: whichever provider answered, a completion that cannot be parsed
\* gives verdict UNVERIFIABLE, confidence 0.3, the start of the completion
\* as explanation and no evidence.
C9_SameDefaultOnEveryProvider ==
    (FactCheckDone /\ local.raw \in UnparseableShapes)
        => /\ result.status = "returned"
           /\ result.verdict = "unverifiable"
           /\ result.confidence = 30
           /\ result.explanation.kind = "raw[:500]"
           /\ result.evidence = <<>>

\* C10: a claim that is empty or has fewer than 10 characters once trimmed
\* is answered at once with UNVERIFIABLE and confidence 0.0, and a question
\* that is empty or blank with the request for a question and confidence
\* 0.0; in both cases the request ends having made no call at all.
C10_InvalidInputAnsweredWithoutCalls ==
    [][ /\ (pc = "validating" /\ req.op = "fact_check"
               /\ Len(Strip(req.text)) < MinClaimLen)
              => /\ pc' = "done"
                 /\ result'.status = "returned"
                 /\ result'.verdict = "unverifiable"
                 /\ result'.confidence = 0
                 /\ result'.evidence = <<>>
                 /\ calls' = <<>>
        /\ (pc = "validating" /\ req.op = "ask" /\ Strip(req.text) = <<>>)
              => /\ pc' = "done"
                 /\ result'.status = "returned"
                 /\ result'.answer = Text("Please ask a question.", "")
                 /\ result'.confidence = 0
                 /\ calls' = <<>> ]_vars

\* C10 witness: a claim of ten characters, nine once trimmed, was turned
\* down without a call
C10_Witness ==
    /\ FactCheckDone
    /\ Len(req.text) >= MinClaimLen
    /\ Len(Strip(req.text)) < MinClaimLen
    /\ result = TooShortResult(req.text, req.language, fact_checker)
    /\ calls = <<>>

\* The calls of a request come in the order of check_claim's stages: the
\* translator's reading of the claim, then the store, then the providers
StageOf(fn) ==
    CASE fn = "translator.detect_language" -> 1
      [] fn = "store.get_all"              -> 2
      [] fn \in ProviderFns("fact_check")  -> 3
      [] OTHER                             -> 4

\* C11: a fact-check request that entered check_claim goes through
\* validation, retrieval and synthesis in that order, calls no provider
\* when validation failed or no evidence was found, and ends with a result
\* that is returned, never with an exception.
C11_StagesInOrderEndInResult ==
    (FactCheckDone /\ fact_checker # "None")
        => /\ \A i, j \in 1..Len(calls) :
                 (i < j /\ "translator.translate" \notin {calls[i].fn, calls[j].fn})
                     => StageOf(calls[i].fn) <= StageOf(calls[j].fn)
           /\ ProviderCalls("fact_check") # <<>> => local.all_evidence # <<>>
           /\ result.status = "returned"
           /\ result.explanation.kind
                  \in {"Please provide a more detailed claim to verify.",
                       "No government documents are available to verify this claim."}
                 => ProviderCalls("fact_check") = <<>>

\* The model's evidence value can be read by lines 155-166
EvidenceReadable(obj) ==
    "evidence" \in obj.keys
        => /\ obj.evidence.type = "list"
           /\ \A i \in 1..Len(obj.evidence.items) : obj.evidence.items[i].type = "dict"

\* C17: whatever the verdict value of the model's object, the result has a
\* verdict of FactCheckVerdict: the canonical value the string equals when
\* letter case is ignored, and UNVERIFIABLE for every other or missing
\* value.
C17_VerdictMappedToCanonical ==
    (FactCheckDone /\ local.llm_result.type = "dict"
        /\ EvidenceReadable(local.llm_result.obj))
        => LET obj == local.llm_result.obj
               canonical == "verdict" \in obj.keys /\ obj.verdict.type = "str"
                               /\ Lower(obj.verdict.s) \in FactCheckVerdict
           IN  /\ result.status = "returned"
               /\ result.verdict = IF canonical THEN Lower(obj.verdict.s)
                                   ELSE "unverifiable"

\* The provider's answer was an object that check_claim built a result from
BuiltFromObject ==
    /\ FactCheckDone
    /\ result.status = "returned"
    /\ local.raw \in {"object", "fenced_object"}

\* C18: the i-th entry of the result's evidence list carries the document
\* id of the i-th retrieved evidence item, and there is an entry for every
\* retrieved item (up to the limit of the list), those without a judgment
\* of the model carrying supports_claim = (verdict = TRUE).
C18_EvidenceZippedWithRetrieved ==
    BuiltFromObject
        => /\ Len(result.evidence) = Min(MaxEvidence, Len(local.all_evidence))
           /\ \A i \in 1..Len(result.evidence) :
                 /\ result.evidence[i].document_id = local.all_evidence[i].document_id
                 /\ i > Len(local.llm_result.obj.evidence.items)
                       => result.evidence[i].supports_claim = (result.verdict = "true")

\* C19: every result of check_claim has a confidence between 0 and 1 and
\* at most 5 evidence entries.
C19_ConfidenceAndEvidenceBounded ==
    (FactCheckDone /\ result.status = "returned")
        => /\ result.confidence \in 0..100
           /\ Len(result.evidence) <= MaxEvidence

\* A call of the translator made for the text of a result failed
ResultTranslationFailed ==
    /\ pc = "done"
    /\ req.op \in {"ask", "fact_check", "summarize_document", "generate_timeline"}
    /\ calls # <<>>
    /\ calls[Len(calls)].fn \in {"translator.translate", "translator.translate_batch"}
    /\ ~calls[Len(calls)].ok

\* C20: when the translator fails on the text of a result, the operation
\* (ask, check_claim, summarize_document, generate_timeline) still returns
\* its result, and no exception leaves it.
C20_TranslationFailureKeepsResult ==
    ResultTranslationFailed => result.status = "returned"

\* The ordinals of the chunks that chunks holds of a document
Ordinals(chunks, document_id) ==
    { c.chunk_index : c \in Filtered(chunks, document_id) }

C13_DeleteLeavesNoChunk ==
    (index_call.op = "delete_document" /\ index_call.status = "returned")
        => /\ Filtered(azure_index, index_call.document_id) = {}
           /\ Filtered(Range(memory_store), index_call.document_id) = {}
           /\ \A top_k \in TopKs :
                  \A found \in SearchOutcomes(index_call.document_id, top_k, TRUE) :
                      found.status = "returned" /\ found.hits = 0

\* delete_document returned after it removed the chunks of a document
\* indexed before
C13_Witness ==
    /\ index_call.op = "delete_document"
    /\ index_call.status = "returned"
    /\ index_call.count = MaxChunks

\* The ids index_document_chunks gave the chunks of a call that returned
IndexedChunkIds(call) ==
    { GenerateChunkId(call.document_id, i) : i \in 0..(call.count - 1) }

C15_DeleteCascadesToIndex ==
    (index_call.op = "routes.delete_document" /\ index_call.status = "returned")
        => /\ Filtered(azure_index, index_call.document_id) = {}
           /\ Filtered(Range(memory_store), index_call.document_id) = {}

\* C16: a search made while the service behind the index cannot be
\* reached raises, and a search that returned no hit was answered by an
\* index that could be reached and matched no chunk.
C16_UnreachableNeverEmpty ==
    index_call.op = "search"
        => /\ ~index_call.reachable => index_call.status = "raised"
           /\ (index_call.status = "returned" /\ index_call.hits = 0)
                  => (index_call.reachable /\ index_call.matched = 0)

\* A search raised because the service could not be reached, while the
\* index held chunks
C16_Witness ==
    /\ index_call.op = "search"
    /\ ~index_call.reachable
    /\ index_call.status = "raised"
    /\ azure_index # {}

\* C28: no provider is called by check_claim for a claim whose sanitized
\* form is shorter than MinClaimLen characters, and none by ask for a
\* question whose sanitized form is empty.
C28_ShortInputNeverReachesProvider ==
    /\ (req.op = "fact_check" /\ ProviderCalls("fact_check") # <<>>)
           => Len(req.text) >= MinClaimLen
    /\ (req.op = "ask" /\ ProviderCalls("answer_question") # <<>>)
           => req.text # <<>>

\* The read of the store that check_claim's retrieval made
StoreListing == SelectSeq(calls, LAMBDA c : c.fn = "store.get_all")

\* The records with a summary that the listing of the store yields
ListedWithSummary ==
    SelectSeq(StoreGetAll(documents, PageSize), LAMBDA d : d.summary)

ChunkDone == pc = "done" /\ req.op = "chunk_text" /\ result.status = "returned"

\* C23: the spans of the chunks chunk_text returned cover the cleaned
\* text: the first starts at offset 0, each of the others starts within or
\* at the end of the one before it, and the last ends at the end of the
\* text, so that the chunks without their overlaps concatenate to it.
C23_ChunksCoverCleanedText ==
    ChunkDone
        => LET chunks == result.chunks
           IN  IF local.text = <<>> THEN chunks = <<>>
               ELSE /\ chunks # <<>>
                    /\ chunks[1].start = 0
                    /\ chunks[Len(chunks)].end = Len(local.text)
                    /\ \A i \in 2..Len(chunks) :
                           /\ chunks[i].start >= 0
                           /\ chunks[i].start <= chunks[i - 1].end

\* C24: every chunk spans at most chunk_size + Window characters, and
\* every chunk after the first starts chunk_overlap characters before the
\* end of the chunk appended before it.
C24_SpanBoundedOverlapExact ==
    (req.op = "chunk_text" /\ pc \in {"chunking", "done"})
        => \A i \in 1..Len(local.chunks) :
               /\ local.chunks[i].end - local.chunks[i].start <= req.chunk_size + Window
               /\ i > 1 => local.chunks[i].start
                               = local.chunks[i - 1].end - req.chunk_overlap

\* C25: a run of the loop's body that is not the last ends its span at
\* one of the sentence endings (or, when there are none, paragraph breaks)
\* of the window around start + chunk_size whenever the window holds one,
\* and at start + chunk_size only when the window holds none.
C25_BreaksAtBoundaryInWindow ==
    [][ (pc = "chunking" /\ pc' = "chunking" /\ local' # local)
            => LET position == local.start + req.chunk_size
                   endings == SentenceEndings(local.text, position, Window)
                   end == local'.start + req.chunk_overlap
               IN  IF endings # {} THEN end \in endings ELSE end = position
      ]_vars

\* C26: the text _clean_text returned holds no control character, no two
\* whitespace characters in a row and no typographic quote.
C26_CleanedTextNormalized ==
    (req.op = "chunk_text" /\ pc = "chunking")
        => /\ \A i \in 1..Len(local.text) :
                  /\ ~IsControl(local.text[i])
                  /\ local.text[i] \notin TypographicQuotes
           /\ \A i \in 2..Len(local.text) :
                  ~(IsWhitespace(local.text[i - 1]) /\ IsWhitespace(local.text[i]))

\* C27: from one run of the loop's body to the next, start grows and is
\* not negative.
C27_StartStrictlyIncreases ==
    [][ (pc = "chunking" /\ pc' = "chunking" /\ req.chunk_overlap < req.chunk_size)
            => (local'.start > local.start /\ local'.start >= 0)
      ]_vars

\* C21: with or without a client of the remote service, a call of
\* index_document_chunks or of search completes; it raises only the error
\* of a remote service that cannot be reached.
C21_IndexAndSearchComplete ==
    (index_call.op \in {"index_document_chunks", "search"} /\ index_call.status = "raised")
        => index_call.exc = "ServiceRequestError"

TimelineDone ==
    pc = "done" /\ req.op = "generate_timeline" /\ req.document_id # ""

\* C30: the timeline a record keeps is the untranslated one whatever the
\* language of the request that had it generated, and a request in language
\* L is answered with no timeline translated into a language other than L.
C30_TimelineFollowsRequestLanguage ==
    /\ \A i \in 1..Len(documents) :
          ("timeline" \in DOMAIN documents[i] /\ documents[i].timeline # NoText)
              => documents[i].timeline.lang = "en"
    /\ (TimelineDone /\ result.status = "returned")
          => result.timeline.lang \in {"en", req.language}

====
